---- MODULE Spec2Model ----
(***************************************************************************)
(* Model of the ip-lookupv2 scan engine: the Deno ping server              *)
(* (ping-server/main.ts: parseIPRange, pingHost, handleStreamingScan,      *)
(* handleJsonScan) and the Scanner page that consumes its event stream     *)
(* (src/pages/Scanner.tsx, src/hooks/useScanState.ts), with the upserts the *)
(* page sends to the table ip_inventory.                                   *)
(*                                                                         *)
(* An address string "a.b.c.d" is the tuple <<a, b, c, d>>.  A piece of an *)
(* input that Number() cannot read is the value NaNPart; the JavaScript    *)
(* number NaN of the batch loop is the value NaN.                          *)
(***************************************************************************)
EXTENDS Integers, Sequences, FiniteSets, TLC

VARIABLES
    req,          \* the request: [mode, target, batchSize]
    pc,           \* position of the server handler
    ips,          \* parseIPRange(target)
    i,            \* loop variable of the batch loop
    batch,        \* ips.slice(i, i + batchSize)
    j,            \* streaming: index in batch of the address in hand
    outstanding,  \* indices of ips whose probe is launched and not finished
    probeStatus,  \* status of the probes finished in the current batch
    results,      \* results: PingResult[]
    events,       \* what controller.enqueue put on the stream, in order
    streamState,  \* "none" | "readable" | "closed" | "cancelled"
    response,     \* the HTTP response of the handler
    probeLog,     \* what each finished probe met: [ip, outcome], in order
    delivered,    \* number of events dispatched to the consumer
    conn,         \* the consumer's EventSource: "none" | "open" | "closed"
    abortRef,             \* Scanner: abortRef.current
    globalScanAbortRef,   \* Scanner: globalScanAbortRef.current
    isScanning,           \* Scanner: isScanning
    scanProgress,         \* useScanState: scanProgress (NoProgress = null)
    collectedResults,     \* Scanner: collectedResults of startSelfHostedScan
    promise,              \* Scanner: the promise of startSelfHostedScan
    toast,                \* Scanner: the toasts shown, in order
    scanNo,               \* Scanner: how many scans startScan has started
    saves,                \* the upserts saveToInventory has sent, in order
    savesDone,            \* indices of saves the store has applied
    inventory,            \* the rows of the table ip_inventory
    mount,                \* which Scanner view is mounted: "owner" (the one that
                          \* starts the scan) | "none" | "other" (mounted later)
    viewScanning,         \* isScanning of the view mounted later
    viewAbortRef,         \* abortRef.current of the view mounted later
    hostnames,            \* localStorage["network-scanner-hostnames"], parsed
    dateNow,              \* Date.now()
    hostArg               \* the hostname argument of the last saveHostname call

vars == <<req, pc, ips, i, batch, j, outstanding, probeStatus, results, events,
          streamState, response, delivered, conn, abortRef, globalScanAbortRef,
          isScanning, scanProgress, collectedResults, promise, toast,
          probeLog, scanNo, saves, savesDone, inventory,
          mount, viewScanning, viewAbortRef, hostnames, dateNow, hostArg>>

serverVars == <<pc, i, batch, j, outstanding, probeStatus, results, events,
                streamState, response, probeLog>>

clientVars == <<delivered, conn, abortRef, globalScanAbortRef, isScanning,
                scanProgress, collectedResults, promise, toast>>

storeVars == <<scanNo, saves, savesDone, inventory>>

viewVars == <<mount, viewScanning, viewAbortRef>>

hostVars == <<hostnames, dateNow, hostArg>>

---------------------------------------------------------------------------
(* Bounds of the model *)

\* longest range (in addresses, either direction) a target of the model names
MaxRangeLen == 6
\* longest address list a modelled scan session runs over
MaxScanIps == 3
\* largest batchSize a request of the model carries
MaxBatch == 2
\* how far below zero the loop variable is followed when batchSize < 0
MaxSpin == 2
\* how many scans the Scanner page starts, one after the other
MaxScans == 2
\* longest address list of a target that is scanned repeatedly
MaxRescanIps == 1
\* saveHostname: entries in the stored list, readings of the clock
MaxStored == 3
MaxClock == 2
\* slice(0, 100)
HostnameCap == 100

---------------------------------------------------------------------------
(* JavaScript numbers *)

NaNPart == -1
NaN == -99

Pow2(n) == IF n = 0 THEN 1 ELSE 2 ^ n

\* a | b on two bytes
RECURSIVE Or8(_, _, _)
Or8(a, b, n) ==
    IF n = 0 THEN 0
    ELSE (IF a % 2 = 1 \/ b % 2 = 1 THEN 1 ELSE 0) + 2 * Or8(a \div 2, b \div 2, n - 1)

\* ToInt32 of a piece of an address: NaN and undefined are 0
PartInt(p) == IF p = NaNPart THEN 0 ELSE p

\* byte k (0 = lowest) of (p << 8*s), truncated to 32 bits
ShiftedByte(p, s, k) ==
    IF k < s THEN 0 ELSE (PartInt(p) \div (256 ^ (k - s))) % 256

\* byte k of (parts[0] << 24) | (parts[1] << 16) | (parts[2] << 8) | parts[3]
OrByte(parts, k) ==
    Or8(Or8(ShiftedByte(parts[1], 3, k), ShiftedByte(parts[2], 2, k), 8),
        Or8(ShiftedByte(parts[3], 1, k), ShiftedByte(parts[4], 0, k), 8), 8)

\* the signed 32-bit value of the expression above
IpToNum(parts) ==
    LET b3 == OrByte(parts, 3)
    IN  (IF b3 >= 128 THEN b3 - 256 ELSE b3) * 16777216
        + OrByte(parts, 2) * 65536 + OrByte(parts, 1) * 256 + OrByte(parts, 0)

\* [(n >>> 24) & 255, (n >>> 16) & 255, (n >>> 8) & 255, n & 255].join(".")
NumToIp(n) ==
    << (n \div 16777216) % 256, (n \div 65536) % 256, (n \div 256) % 256, n % 256 >>

---------------------------------------------------------------------------
(* Targets *)

RangeT(s, e) == [kind |-> "range", a |-> s, b |-> e, bits |-> 0]
CidrT(base, n) == [kind |-> "cidr", a |-> base, b |-> base, bits |-> n]
SingleT(s) == [kind |-> "single", a |-> s, b |-> s, bits |-> 0]
MissingT == [kind |-> "missing", a |-> <<0, 0, 0, 0>>, b |-> <<0, 0, 0, 0>>, bits |-> 0]

\* parseIPRange, the "-" branch
ExpandRange(startParts, endParts) ==
    LET startNum == IpToNum(startParts)
        endNum == IpToNum(endParts)
    IN  IF startNum <= endNum
        THEN [k \in 1..(endNum - startNum + 1) |-> NumToIp(startNum + k - 1)]
        ELSE << >>

\* a "/" branch that counts from the base address as written, without the mask
ExpandCidrFromBase(parts, bits) ==
    IF bits # NaN /\ bits >= 24 /\ bits <= 32
    THEN LET baseNum == IpToNum(parts)
             numHosts == Pow2(32 - bits)
         IN  IF numHosts - 2 >= 1
             THEN [k \in 1..(numHosts - 2) |-> NumToIp(baseNum + k)]
             ELSE << >>
    ELSE << >>

\* parseIPRange, the "/" branch
ExpandCidr(parts, bits) ==
    IF bits # NaN /\ bits >= 24 /\ bits <= 32
    THEN LET baseNum == IpToNum(parts)
             hostBits == 32 - bits
             numHosts == Pow2(hostBits)
             networkAddress == (baseNum \div numHosts) * numHosts
         IN  IF numHosts - 2 >= 1
             THEN [k \in 1..(numHosts - 2) |-> NumToIp(networkAddress + k)]
             ELSE << >>
    ELSE << >>

parseIPRange(t) ==
    CASE t.kind = "range" -> ExpandRange(t.a, t.b)
      [] t.kind = "cidr" -> ExpandCidr(t.a, t.bits)
      [] OTHER -> << t.a >>

---------------------------------------------------------------------------
(* The targets the model draws its requests from *)

\* unsigned order of addresses, the order the specification names
Hi(a) == a[1] * 256 + a[2]
Lo(a) == a[3] * 256 + a[4]
ULeq(a, b) == Hi(a) < Hi(b) \/ (Hi(a) = Hi(b) /\ Lo(a) <= Lo(b))
ULess(a, b) == ULeq(a, b) /\ a # b
\* b - a as unsigned numbers, for addresses whose upper halves differ by at most 1
UDiff(a, b) == (Hi(b) - Hi(a)) * 65536 + Lo(b) - Lo(a)
Near(a, b) ==
    /\ Hi(b) - Hi(a) \in {-1, 0, 1}
    /\ UDiff(a, b) < MaxRangeLen
    /\ UDiff(b, a) < MaxRangeLen

WellFormedAddrs ==
    { <<10, 1, 9, 254>>, <<10, 1, 9, 255>>, <<10, 1, 10, 0>>, <<10, 1, 10, 1>>,
      <<10, 1, 10, 3>>, <<10, 0, 0, 1>>, <<10, 0, 0, 5>>,
      <<127, 255, 255, 254>>, <<127, 255, 255, 255>>, <<128, 0, 0, 0>>, <<128, 0, 0, 1>>,
      <<200, 1, 1, 1>>, <<200, 1, 1, 2>>,
      <<0, 0, 0, 0>>, <<0, 0, 0, 1>>, <<255, 255, 255, 254>>, <<255, 255, 255, 255>> }

CidrBases ==
    { <<10, 1, 10, 0>>, <<10, 1, 10, 5>>, <<10, 1, 10, 255>>, <<127, 255, 255, 129>>,
      <<128, 0, 0, 0>>, <<255, 255, 255, 255>>, <<0, 0, 0, 0>> }

CidrBits == 22..33 \cup {NaN}

\* Left out: a range from the upper half of the address space (first octet
\* >= 128) down to the lower half.  Its start is negative and its end positive
\* as signed numbers, so the loop of parseIPRange runs over up to 2^32 - 1
\* addresses, beyond what can be enumerated here (255.255.255.255-0.0.0.0, of
\* two addresses, is among MalformedTargets).
RangeTargets ==
    { RangeT(p[1], p[2]) :
        p \in { q \in WellFormedAddrs \X WellFormedAddrs :
                  Near(q[1], q[2]) /\ ~(q[1][1] >= 128 /\ q[2][1] < 128) } }

\* a piece that is no number ("10.0.0.x"), an octet above 255 ("10.1.10.256"),
\* a range that wraps around the end of the address space
MalformedTargets ==
    { RangeT(<<10, 0, 0, NaNPart>>, <<10, 0, 0, 2>>),
      RangeT(<<10, 1, 10, 256>>, <<10, 1, 11, 1>>),
      RangeT(<<10, 1, 10, 1>>, <<10, 1, 10, NaNPart>>),
      RangeT(<<255, 255, 255, 255>>, <<0, 0, 0, 0>>),
      CidrT(<<10, 1, 10, NaNPart>>, 30),
      SingleT(<<10, 0, 0, NaNPart>>),
      SingleT(<<10, 1, 10, 256>>) }

CidrTargets == { CidrT(b, n) : b \in CidrBases, n \in CidrBits }

SingleTargets == { SingleT(a) : a \in {<<10, 1, 10, 1>>, <<128, 0, 0, 1>>, <<255, 255, 255, 255>>} }

ExpandTargets == RangeTargets \cup CidrTargets \cup SingleTargets \cup MalformedTargets

---------------------------------------------------------------------------
(* Requests *)

\* batchSize when the request names none
DefaultBatchSize == 10

\* i + batchSize, i < n on JavaScript numbers
JsAdd(x, y) == IF x = NaN \/ y = NaN THEN NaN ELSE x + y
JsLess(x, y) == x # NaN /\ y # NaN /\ x < y

\* the loop variable on its way down (batchSize < 0): below zero every value
\* passes the test i < ips.length and gives the empty slice, so the values
\* below -MaxSpin are folded into -MaxSpin
Descend(x) == IF x # NaN /\ x < -MaxSpin THEN -MaxSpin ELSE x

\* Array.prototype.slice(from, to): a relative index below 0 counts from the
\* end, NaN is 0
RelIndex(x, len) ==
    IF x = NaN THEN 0
    ELSE IF x < 0 THEN (IF len + x > 0 THEN len + x ELSE 0)
    ELSE IF x < len THEN x ELSE len
\* a slice counted from the end of the array: the last window comes first
SliceMirrored(s, from, to) ==
    LET k == RelIndex(from, Len(s))
        f == RelIndex(to, Len(s))
    IN  IF k < f THEN SubSeq(s, Len(s) - f + 1, Len(s) - k) ELSE << >>

Slice(s, from, to) ==
    LET k == RelIndex(from, Len(s))
        f == RelIndex(to, Len(s))
    IN  IF k < f THEN SubSeq(s, k + 1, f) ELSE << >>

\* Scanner.validateIP: four pieces, each a number in 0..255
validateIP(parts) ==
    /\ Len(parts) = 4
    /\ \A k \in 1..4 : parts[k] # NaNPart /\ parts[k] >= 0 /\ parts[k] <= 255

\* Scanner.validateCIDR
validateCIDR(t) == validateIP(t.a) /\ t.bits # NaN /\ t.bits >= 24 /\ t.bits <= 32

\* the check startScan makes before it sends anything
ScannerAccepts(t) ==
    CASE t.kind = "cidr" -> validateCIDR(t)
      [] t.kind = "range" -> validateIP(t.a) /\ validateIP(t.b)
      [] OTHER -> FALSE

\* the targets scan sessions are run over
ScanCandidates ==
    { RangeT(<<10, 1, 10, 1>>, <<10, 1, 10, 3>>),
      RangeT(<<10, 1, 10, 1>>, <<10, 1, 10, 1>>),
      RangeT(<<10, 1, 9, 255>>, <<10, 1, 10, 1>>),
      RangeT(<<10, 1, 9, 254>>, <<10, 1, 10, 1>>),
      RangeT(<<10, 0, 0, 5>>, <<10, 0, 0, 1>>),
      RangeT(<<127, 255, 255, 255>>, <<128, 0, 0, 0>>),
      RangeT(<<10, 1, 10, 256>>, <<10, 1, 11, 1>>),
      CidrT(<<10, 1, 10, 0>>, 30),
      CidrT(<<10, 1, 10, 0>>, 32),
      CidrT(<<10, 1, 10, 0>>, 23),
      SingleT(<<10, 1, 10, 1>>),
      SingleT(<<10, 0, 0, NaNPart>>),
      MissingT }

ScanTargets == { t \in ScanCandidates : Len(parseIPRange(t)) <= MaxScanIps }

\* a batchSize of a request: a number, or text parseInt reads as NaN
BatchSizes == (-1..MaxBatch) \cup {DefaultBatchSize, NaN}

\* The requests: those the Scanner page sends (GET /scan/stream with a target
\* it validated and no batchSize), and those of any other caller of the server.
Requests ==
    { [mode |-> "stream", target |-> t, batchSize |-> DefaultBatchSize, client |-> "scanner"] :
        t \in { u \in ScanTargets : ScannerAccepts(u) } }
    \cup
    { [mode |-> "stream", target |-> t, batchSize |-> b, client |-> "other"] :
        t \in ScanTargets, b \in BatchSizes }
    \cup
    { [mode |-> "json", target |-> t, batchSize |-> b, client |-> "other"] :
        t \in ScanTargets, b \in BatchSizes \ {NaN} }

---------------------------------------------------------------------------
(* Probes, events, responses *)

ProbeOutcomes == {"success", "failure", "throw"}

\* a pingHost that puts its responseTime on every result
pingHostAlwaysTimed(ip, outcome) ==
    [ip |-> ip, status |-> IF outcome = "success" THEN "active" ELSE "inactive", rt |-> TRUE]

\* a pingHost without the catch: what the spawn threw leaves it
pingHostUncaught(ip, outcome) ==
    CASE outcome = "success" -> [ip |-> ip, status |-> "active", rt |-> TRUE]
      [] outcome = "failure" -> [ip |-> ip, status |-> "inactive", rt |-> FALSE]
      [] OTHER -> [ip |-> ip, status |-> "raised", rt |-> FALSE]

\* pingHost: the exit status of ping decides; a failed spawn is caught.
\* rt says whether the result carries a responseTime.
pingHost(ip, outcome) ==
    IF outcome = "success"
    THEN [ip |-> ip, status |-> "active", rt |-> TRUE]
    ELSE [ip |-> ip, status |-> "inactive", rt |-> FALSE]

NoResult == [ip |-> << >>, status |-> "pending", rt |-> FALSE]

\* a count that takes every result for an active host
ActiveCountEveryResult(rs) == Len(rs)

ActiveCount(rs) == Cardinality({ k \in 1..Len(rs) : rs[k].status = "active" })

\* a progress event that counts the results at hand, not the address in hand
ProgressEvCompleted(ip, current, total) ==
    [type |-> "progress", ip |-> ip, current |-> current - 1, total |-> total,
     result |-> NoResult, totalHosts |-> 0, activeHosts |-> 0, results |-> << >>]

ProgressEv(ip, current, total) ==
    [type |-> "progress", ip |-> ip, current |-> current, total |-> total,
     result |-> NoResult, totalHosts |-> 0, activeHosts |-> 0, results |-> << >>]

ResultEv(r) ==
    [type |-> "result", ip |-> r.ip, current |-> 0, total |-> 0,
     result |-> r, totalHosts |-> 0, activeHosts |-> 0, results |-> << >>]

\* the summary of handleStreamingScan
CompleteEv(rs) ==
    [type |-> "complete", ip |-> << >>, current |-> 0, total |-> 0,
     result |-> NoResult, totalHosts |-> Len(rs), activeHosts |-> ActiveCount(rs),
     results |-> rs]

NoResponse == [status |-> 0, kind |-> "none", totalHosts |-> 0, activeHosts |-> 0, results |-> << >>]
TargetRequired == [status |-> 400, kind |-> "error", totalHosts |-> 0, activeHosts |-> 0, results |-> << >>]
StreamResponse == [status |-> 200, kind |-> "stream", totalHosts |-> 0, activeHosts |-> 0, results |-> << >>]

\* the comparator of handleJsonScan: the fourth piece of the address only
SortKey(r) == r.ip[4]

\* Array.prototype.sort is stable: x goes behind the entries whose key is not larger
RECURSIVE InsertSorted(_, _)
InsertSorted(sorted, x) ==
    IF sorted = << >> THEN << x >>
    ELSE IF SortKey(x) < SortKey(sorted[Len(sorted)])
         THEN Append(InsertSorted(SubSeq(sorted, 1, Len(sorted) - 1), x), sorted[Len(sorted)])
         ELSE Append(sorted, x)

RECURSIVE SortResults(_)
SortResults(rs) ==
    IF rs = << >> THEN << >>
    ELSE InsertSorted(SortResults(SubSeq(rs, 1, Len(rs) - 1)), rs[Len(rs)])

\* the body handleJsonScan answers with
JsonResponse(rs) ==
    [status |-> 200, kind |-> "json", totalHosts |-> Len(rs), activeHosts |-> ActiveCount(rs),
     results |-> SortResults(rs)]

---------------------------------------------------------------------------
(* The shared scan state of useScanState *)

NoProgress == [isScanning |-> FALSE, progress |-> 0, currentIp |-> << >>,
               activeCount |-> 0, inactiveCount |-> 0, null |-> TRUE]

StartedProgress == [isScanning |-> TRUE, progress |-> 0, currentIp |-> << >>,
                    activeCount |-> 0, inactiveCount |-> 0, null |-> FALSE]

\* an updateProgress that merges the update into whatever is there
updateProgressMerging(sp, updates) ==
    [f \in DOMAIN sp |->
        IF f \in DOMAIN updates THEN updates[f] ELSE IF f = "null" THEN FALSE ELSE sp[f]]

\* updateProgress: null stays null, otherwise the named fields are replaced
updateProgress(sp, updates) ==
    IF sp.null THEN NoProgress
    ELSE [f \in DOMAIN sp |-> IF f \in DOMAIN updates THEN updates[f] ELSE sp[f]]

\* Math.round(((data.current || 0) / (data.total || 1)) * 100)
ProgressValue(current, total) ==
    LET t == IF total = 0 THEN 1 ELSE total
    IN  (200 * current + t) \div (2 * t)

InactiveCount(rs) == Cardinality({ k \in 1..Len(rs) : rs[k].status = "inactive" })

---------------------------------------------------------------------------
(* The inventory: the table ip_inventory *)

\* the row saveToInventory sends; the results of the ping server carry no
\* hostname, and last_seen_at is the time of the call
saveToInventory(result, now) ==
    [ip_address |-> result.ip, status |-> result.status, hostname |-> "null",
     last_seen_at |-> now]

\* upsert with onConflict "ip_address" on a table where ip_address is UNIQUE
Upsert(rows, row) == { r \in rows : r.ip_address # row.ip_address } \cup { row }

---------------------------------------------------------------------------
(* Initial states *)

InitSession ==
    /\ pc = "start"
    /\ ips = << >>
    /\ i = 0
    /\ batch = << >>
    /\ j = 0
    /\ outstanding = {}
    /\ probeStatus = << >>
    /\ results = << >>
    /\ events = << >>
    /\ streamState = "none"
    /\ response = NoResponse
    /\ delivered = 0
    /\ abortRef = FALSE
    /\ globalScanAbortRef = FALSE
    /\ isScanning = FALSE
    /\ scanProgress = NoProgress
    /\ collectedResults = << >>
    /\ promise = "none"
    /\ toast = << >>
    /\ probeLog = << >>
    /\ scanNo = 0
    /\ saves = << >>
    /\ savesDone = {}
    /\ inventory = {}
    /\ mount = "owner"
    /\ viewScanning = FALSE
    /\ viewAbortRef = FALSE
    /\ hostnames = << >>
    /\ dateNow = 0
    /\ hostArg = << >>

Init ==
    /\ req \in Requests
    /\ conn = IF req.client = "scanner" THEN "none" ELSE "open"
    /\ InitSession

---------------------------------------------------------------------------
(* handleStreamingScan *)

\* a controller that goes on accepting events whatever became of the stream
CanEnqueueAlways == TRUE

\* controller.enqueue and controller.close throw unless the stream is readable
CanEnqueue == streamState = "readable"

\* the request reaches the handler: the target check, parseIPRange, the stream
HandleStreamingScan ==
    /\ pc = "start"
    /\ req.mode = "stream"
    /\ req.client = "scanner" => conn # "none"
    /\ IF req.target.kind = "missing"
       THEN /\ response' = TargetRequired
            /\ pc' = "done"
            /\ UNCHANGED <<ips, streamState>>
       ELSE /\ ips' = parseIPRange(req.target)
            /\ streamState' = "readable"
            /\ response' = StreamResponse
            /\ pc' = "loop"
    /\ UNCHANGED <<req, i, batch, j, outstanding, probeStatus, results, events>>
    /\ UNCHANGED clientVars
    /\ UNCHANGED probeLog
    /\ UNCHANGED storeVars
    /\ UNCHANGED viewVars
    /\ UNCHANGED hostVars

\* for (let i = 0; i < ips.length; i += batchSize): the test and the slice
StreamLoopHead ==
    /\ pc = "loop"
    /\ req.mode = "stream"
    /\ IF JsLess(i, Len(ips))
       THEN /\ batch' = Slice(ips, i, JsAdd(i, req.batchSize))
            /\ j' = 1
            /\ pc' = "batch"
       ELSE /\ pc' = "finish"
            /\ UNCHANGED <<batch, j>>
    /\ UNCHANGED <<req, ips, i, outstanding, probeStatus, results, events, streamState, response>>
    /\ UNCHANGED clientVars
    /\ UNCHANGED probeLog
    /\ UNCHANGED storeVars
    /\ UNCHANGED viewVars
    /\ UNCHANGED hostVars

\* for (const ip of batch): the progress event, then pingHost is started
StreamProgress ==
    /\ pc = "batch"
    /\ req.mode = "stream"
    /\ j <= Len(batch)
    /\ IF CanEnqueue
       THEN /\ events' = Append(events, ProgressEv(batch[j], Len(results) + 1, Len(ips)))
            /\ outstanding' = {j}
            /\ pc' = "await"
       ELSE /\ pc' = "errored"
            /\ UNCHANGED <<events, outstanding>>
    /\ UNCHANGED <<req, ips, i, batch, j, probeStatus, results, streamState, response>>
    /\ UNCHANGED clientVars
    /\ UNCHANGED probeLog
    /\ UNCHANGED storeVars
    /\ UNCHANGED viewVars
    /\ UNCHANGED hostVars

\* the batch is through: i += batchSize
StreamBatchEnd ==
    /\ pc = "batch"
    /\ req.mode = "stream"
    /\ j > Len(batch)
    /\ i' = Descend(JsAdd(i, req.batchSize))
    /\ pc' = "loop"
    /\ UNCHANGED <<req, ips, batch, j, outstanding, probeStatus, results, events, streamState, response>>
    /\ UNCHANGED clientVars
    /\ UNCHANGED probeLog
    /\ UNCHANGED storeVars
    /\ UNCHANGED viewVars
    /\ UNCHANGED hostVars

\* await pingHost(ip, timeout) returns: results.push(result), the result event
StreamProbeDone ==
    /\ pc = "await"
    /\ req.mode = "stream"
    /\ \E outcome \in ProbeOutcomes :
         LET result == pingHost(batch[j], outcome)
         IN  /\ results' = Append(results, result)
             /\ probeLog' = Append(probeLog, [ip |-> batch[j], outcome |-> outcome])
             /\ outstanding' = {}
             /\ IF CanEnqueue
                THEN /\ events' = Append(events, ResultEv(result))
                     /\ j' = j + 1
                     /\ pc' = "batch"
                ELSE /\ pc' = "errored"
                     /\ UNCHANGED <<events, j>>
    /\ UNCHANGED <<req, ips, i, batch, probeStatus, streamState, response>>
    /\ UNCHANGED clientVars
    /\ UNCHANGED storeVars
    /\ UNCHANGED viewVars
    /\ UNCHANGED hostVars

\* a handler that closes the stream of a scan without results without a summary
StreamFinishSkipsEmpty ==
    /\ pc = "finish"
    /\ req.mode = "stream"
    /\ IF CanEnqueue
       THEN /\ events' = IF results = << >> THEN events ELSE Append(events, CompleteEv(results))
            /\ streamState' = "closed"
            /\ pc' = "done"
       ELSE /\ pc' = "errored"
            /\ UNCHANGED <<events, streamState>>
    /\ UNCHANGED <<req, ips, i, batch, j, outstanding, probeStatus, results, response>>
    /\ UNCHANGED clientVars
    /\ UNCHANGED probeLog
    /\ UNCHANGED storeVars
    /\ UNCHANGED viewVars
    /\ UNCHANGED hostVars

\* a handler that enqueues the summary and leaves out controller.close()
StreamFinishWithoutClose ==
    /\ pc = "finish"
    /\ req.mode = "stream"
    /\ IF CanEnqueue
       THEN /\ events' = Append(events, CompleteEv(results))
            /\ pc' = "done"
       ELSE /\ pc' = "errored"
            /\ UNCHANGED events
    /\ UNCHANGED <<req, ips, i, batch, j, outstanding, probeStatus, results, streamState, response>>
    /\ UNCHANGED clientVars
    /\ UNCHANGED probeLog
    /\ UNCHANGED storeVars
    /\ UNCHANGED viewVars
    /\ UNCHANGED hostVars

\* after the loop: the summary is enqueued and the stream closed
StreamFinish ==
    /\ pc = "finish"
    /\ req.mode = "stream"
    /\ IF CanEnqueue
       THEN /\ events' = Append(events, CompleteEv(results))
            /\ streamState' = "closed"
            /\ pc' = "done"
       ELSE /\ pc' = "errored"
            /\ UNCHANGED <<events, streamState>>
    /\ UNCHANGED <<req, ips, i, batch, j, outstanding, probeStatus, results, response>>
    /\ UNCHANGED clientVars
    /\ UNCHANGED probeLog
    /\ UNCHANGED storeVars
    /\ UNCHANGED viewVars
    /\ UNCHANGED hostVars

\* The runtime cancels the response stream once it sees the consumer gone.  It
\* can do so only while the handler is suspended in an await.
ServerDetectDisconnect ==
    /\ conn = "closed"
    /\ streamState = "readable"
    /\ pc = "await"
    /\ streamState' = "cancelled"
    /\ UNCHANGED <<req, ips, pc, i, batch, j, outstanding, probeStatus, results, events, response>>
    /\ UNCHANGED clientVars
    /\ UNCHANGED probeLog
    /\ UNCHANGED storeVars
    /\ UNCHANGED viewVars
    /\ UNCHANGED hostVars

---------------------------------------------------------------------------
(* handleJsonScan *)

\* a handler that goes on to parseIPRange without the check of the target
HandleJsonScanNoTargetCheck ==
    /\ pc = "start"
    /\ req.mode = "json"
    /\ ips' = parseIPRange(req.target)
    /\ pc' = "loop"
    /\ UNCHANGED <<req, response, i, batch, j, outstanding, probeStatus, results, events, streamState>>
    /\ UNCHANGED clientVars
    /\ UNCHANGED probeLog
    /\ UNCHANGED storeVars
    /\ UNCHANGED viewVars
    /\ UNCHANGED hostVars

HandleJsonScan ==
    /\ pc = "start"
    /\ req.mode = "json"
    /\ IF req.target.kind = "missing"
       THEN /\ response' = TargetRequired
            /\ pc' = "done"
            /\ UNCHANGED ips
       ELSE /\ ips' = parseIPRange(req.target)
            /\ pc' = "loop"
            /\ UNCHANGED response
    /\ UNCHANGED <<req, i, batch, j, outstanding, probeStatus, results, events, streamState>>
    /\ UNCHANGED clientVars
    /\ UNCHANGED probeLog
    /\ UNCHANGED storeVars
    /\ UNCHANGED viewVars
    /\ UNCHANGED hostVars

\* the loop test, the slice, and batch.map(pingHost): every probe of the batch
\* is started before the first await
JsonLoopHead ==
    /\ pc = "loop"
    /\ req.mode = "json"
    /\ IF JsLess(i, Len(ips))
       THEN LET b == Slice(ips, i, JsAdd(i, req.batchSize))
            IN  /\ batch' = b
                /\ outstanding' = 1..Len(b)
                /\ probeStatus' = [k \in 1..Len(b) |-> NoResult]
                /\ pc' = "await"
       ELSE /\ pc' = "finish"
            /\ UNCHANGED <<batch, outstanding, probeStatus>>
    /\ UNCHANGED <<req, ips, i, j, results, events, streamState, response>>
    /\ UNCHANGED clientVars
    /\ UNCHANGED probeLog
    /\ UNCHANGED storeVars
    /\ UNCHANGED viewVars
    /\ UNCHANGED hostVars

\* one pingHost of the batch returns
JsonProbeDone ==
    /\ pc = "await"
    /\ req.mode = "json"
    /\ \E k \in outstanding, outcome \in ProbeOutcomes :
         /\ outstanding' = outstanding \ {k}
         /\ probeStatus' = [probeStatus EXCEPT ![k] = pingHost(batch[k], outcome)]
         /\ probeLog' = Append(probeLog, [ip |-> batch[k], outcome |-> outcome])
    /\ UNCHANGED <<req, ips, pc, i, batch, j, results, events, streamState, response>>
    /\ UNCHANGED clientVars
    /\ UNCHANGED storeVars
    /\ UNCHANGED viewVars
    /\ UNCHANGED hostVars

\* a handler that moves on as soon as one probe of the batch is back
JsonBatchDoneEarly ==
    /\ pc = "await"
    /\ req.mode = "json"
    /\ Cardinality(outstanding) < Len(batch)
    /\ results' = results \o probeStatus
    /\ i' = Descend(JsAdd(i, req.batchSize))
    /\ pc' = "loop"
    /\ UNCHANGED <<req, ips, batch, j, outstanding, probeStatus, events, streamState, response>>
    /\ UNCHANGED clientVars
    /\ UNCHANGED probeLog
    /\ UNCHANGED storeVars
    /\ UNCHANGED viewVars
    /\ UNCHANGED hostVars

\* a handler that keeps the results of the last batch only
JsonBatchDoneReplacing ==
    /\ pc = "await"
    /\ req.mode = "json"
    /\ outstanding = {}
    /\ results' = probeStatus
    /\ i' = Descend(JsAdd(i, req.batchSize))
    /\ pc' = "loop"
    /\ UNCHANGED <<req, ips, batch, j, outstanding, probeStatus, events, streamState, response>>
    /\ UNCHANGED clientVars
    /\ UNCHANGED probeLog
    /\ UNCHANGED storeVars
    /\ UNCHANGED viewVars
    /\ UNCHANGED hostVars

\* Promise.all resolves: results.push(...batchResults); i += batchSize
JsonBatchDone ==
    /\ pc = "await"
    /\ req.mode = "json"
    /\ outstanding = {}
    /\ results' = results \o probeStatus
    /\ i' = Descend(JsAdd(i, req.batchSize))
    /\ pc' = "loop"
    /\ UNCHANGED <<req, ips, batch, j, outstanding, probeStatus, events, streamState, response>>
    /\ UNCHANGED clientVars
    /\ UNCHANGED probeLog
    /\ UNCHANGED storeVars
    /\ UNCHANGED viewVars
    /\ UNCHANGED hostVars

\* the response with the counts and the sorted results
JsonFinish ==
    /\ pc = "finish"
    /\ req.mode = "json"
    /\ response' = JsonResponse(results)
    /\ pc' = "done"
    /\ UNCHANGED <<req, ips, i, batch, j, outstanding, probeStatus, results, events, streamState>>
    /\ UNCHANGED clientVars
    /\ UNCHANGED probeLog
    /\ UNCHANGED storeVars
    /\ UNCHANGED viewVars
    /\ UNCHANGED hostVars

---------------------------------------------------------------------------
(* The Scanner page *)

\* startScan up to new EventSource(url): the flags, the shared state, the request
StartScan ==
    /\ req.client = "scanner"
    /\ mount = "owner"
    /\ conn = "none"
    /\ ~isScanning
    /\ isScanning' = TRUE
    /\ abortRef' = FALSE
    /\ globalScanAbortRef' = FALSE
    /\ scanProgress' = StartedProgress
    /\ collectedResults' = << >>
    /\ conn' = "open"
    /\ promise' = "pending"
    /\ scanNo' = scanNo + 1
    /\ UNCHANGED <<req, ips, delivered, toast, saves, savesDone, inventory>>
    /\ UNCHANGED serverVars
    /\ UNCHANGED viewVars
    /\ UNCHANGED hostVars

\* an event source that hands over the newest event and skips what is before it
NextEventNewest == events[Len(events)]

\* event.data of the message the event source dispatches next: the events of
\* the stream arrive one by one, in the order they were written
NextEvent == events[delivered + 1]

\* eventSource.onmessage for the next event of the stream, and what startScan
\* does once the promise settles (catch, finally)
ScannerOnMessage ==
    /\ req.client = "scanner"
    /\ conn = "open"
    /\ delivered < Len(events)
    /\ delivered' = delivered + 1
    /\ LET data == NextEvent
       IN  IF abortRef \/ globalScanAbortRef
           THEN /\ conn' = "closed"
                /\ promise' = "cancelled"
                /\ toast' = IF abortRef THEN toast ELSE Append(toast, "Scan Failed")
                /\ isScanning' = FALSE
                /\ scanProgress' = NoProgress
                /\ UNCHANGED <<collectedResults, saves>>
           ELSE CASE data.type = "progress" ->
                       /\ scanProgress' = updateProgress(scanProgress,
                              [progress |-> ProgressValue(data.current, data.total),
                               currentIp |-> data.ip,
                               activeCount |-> ActiveCount(collectedResults),
                               inactiveCount |-> InactiveCount(collectedResults)])
                       /\ UNCHANGED <<conn, promise, toast, isScanning, collectedResults, saves>>
                  [] data.type = "result" ->
                       /\ collectedResults' = Append(collectedResults, data.result)
                       /\ saves' = Append(saves, saveToInventory(data.result, Len(saves) + 1))
                       /\ scanProgress' = updateProgress(scanProgress,
                              [activeCount |-> ActiveCount(collectedResults'),
                               inactiveCount |-> InactiveCount(collectedResults')])
                       /\ UNCHANGED <<conn, promise, toast, isScanning>>
                  [] OTHER ->
                       /\ conn' = "closed"
                       /\ scanProgress' = NoProgress
                       /\ promise' = "resolved"
                       /\ toast' = IF abortRef THEN toast ELSE Append(toast, "Scan Complete")
                       /\ isScanning' = FALSE
                       /\ UNCHANGED <<collectedResults, saves>>
    /\ UNCHANGED <<req, ips, abortRef, globalScanAbortRef, scanNo, savesDone, inventory>>
    /\ UNCHANGED serverVars
    /\ UNCHANGED viewVars
    /\ UNCHANGED hostVars

\* eventSource.onerror: the connection failed
ScannerOnError ==
    /\ req.client = "scanner"
    /\ conn = "open"
    /\ conn' = "closed"
    /\ scanProgress' = NoProgress
    /\ promise' = "failed"
    /\ toast' = IF abortRef THEN toast ELSE Append(toast, "Scan Failed")
    /\ isScanning' = FALSE
    /\ UNCHANGED <<req, ips, delivered, abortRef, globalScanAbortRef, collectedResults>>
    /\ UNCHANGED serverVars
    /\ UNCHANGED storeVars
    /\ UNCHANGED viewVars
    /\ UNCHANGED hostVars

\* a stopScan that sets the flags and leaves the event source open
StopScanLeavesSourceOpen ==
    /\ req.client = "scanner"
    /\ mount = "owner"
    /\ isScanning
    /\ abortRef' = TRUE
    /\ globalScanAbortRef' = TRUE
    /\ isScanning' = FALSE
    /\ scanProgress' = NoProgress
    /\ toast' = Append(toast, "Scan Stopped")
    /\ UNCHANGED <<req, ips, delivered, conn, collectedResults, promise>>
    /\ UNCHANGED serverVars
    /\ UNCHANGED storeVars
    /\ UNCHANGED viewVars
    /\ UNCHANGED hostVars

\* stopScan: the Stop button is shown while isScanning
StopScan ==
    /\ req.client = "scanner"
    /\ mount = "owner"
    /\ isScanning
    /\ abortRef' = TRUE
    /\ globalScanAbortRef' = TRUE
    /\ conn' = IF conn = "open" THEN "closed" ELSE conn
    /\ isScanning' = FALSE
    /\ scanProgress' = NoProgress
    /\ toast' = Append(toast, "Scan Stopped")
    /\ UNCHANGED <<req, ips, delivered, collectedResults, promise>>
    /\ UNCHANGED serverVars
    /\ UNCHANGED storeVars
    /\ UNCHANGED viewVars
    /\ UNCHANGED hostVars

\* The store applies one of the upserts sent.  saveToInventory is called
\* without await, one HTTP request per result: the requests in flight reach
\* the table in any order.
InventoryUpsert ==
    /\ \E k \in (1..Len(saves)) \ savesDone :
         /\ inventory' = Upsert(inventory, saves[k])
         /\ savesDone' = savesDone \cup {k}
    /\ UNCHANGED <<req, ips, scanNo, saves>>
    /\ UNCHANGED serverVars
    /\ UNCHANGED clientVars
    /\ UNCHANGED viewVars
    /\ UNCHANGED hostVars

---------------------------------------------------------------------------
(* Any other consumer of the stream *)

OtherReceive ==
    /\ req.client = "other"
    /\ req.mode = "stream"
    /\ conn = "open"
    /\ delivered < Len(events)
    /\ delivered' = delivered + 1
    /\ UNCHANGED <<req, ips, conn, abortRef, globalScanAbortRef, isScanning, scanProgress,
                   collectedResults, promise, toast>>
    /\ UNCHANGED serverVars
    /\ UNCHANGED storeVars
    /\ UNCHANGED viewVars
    /\ UNCHANGED hostVars

OtherDisconnect ==
    /\ req.client = "other"
    /\ req.mode = "stream"
    /\ conn = "open"
    /\ conn' = "closed"
    /\ UNCHANGED <<req, ips, delivered, abortRef, globalScanAbortRef, isScanning, scanProgress,
                   collectedResults, promise, toast>>
    /\ UNCHANGED serverVars
    /\ UNCHANGED storeVars
    /\ UNCHANGED viewVars
    /\ UNCHANGED hostVars

---------------------------------------------------------------------------
(* Specifications *)

Next ==
    \/ HandleStreamingScan
    \/ StreamLoopHead
    \/ StreamProgress
    \/ StreamBatchEnd
    \/ StreamProbeDone
    \/ StreamFinish
    \/ ServerDetectDisconnect
    \/ HandleJsonScan
    \/ JsonLoopHead
    \/ JsonProbeDone
    \/ JsonBatchDone
    \/ JsonFinish
    \/ StartScan
    \/ ScannerOnMessage
    \/ ScannerOnError
    \/ StopScan
    \/ InventoryUpsert
    \/ OtherReceive
    \/ OtherDisconnect

Spec == Init /\ [][Next]_vars

\* The handlers keep running: the event loop takes the next step of a handler
\* whenever there is one, and every probe returns (ping -c 1 -W timeout ends).
\* Nothing is assumed of the consumer or the user.
ServerStep ==
    \/ HandleStreamingScan
    \/ StreamLoopHead
    \/ StreamProgress
    \/ StreamBatchEnd
    \/ StreamProbeDone
    \/ StreamFinish
    \/ HandleJsonScan
    \/ JsonLoopHead
    \/ JsonProbeDone
    \/ JsonBatchDone
    \/ JsonFinish

SpecLive == Init /\ [][Next]_vars /\ WF_vars(ServerStep)

\* parseIPRange alone, over every target of the model
InitExpand ==
    /\ req \in { [mode |-> "expand", target |-> t, batchSize |-> DefaultBatchSize,
                  client |-> "other"] : t \in ExpandTargets }
    /\ conn = "open"
    /\ InitSession

Expand ==
    /\ pc = "start"
    /\ req.mode = "expand"
    /\ ips' = parseIPRange(req.target)
    /\ pc' = "expanded"
    /\ UNCHANGED <<req, i, batch, j, outstanding, probeStatus, results, events, streamState,
                   response>>
    /\ UNCHANGED clientVars
    /\ UNCHANGED probeLog
    /\ UNCHANGED storeVars
    /\ UNCHANGED viewVars
    /\ UNCHANGED hostVars

NextExpand == Expand

SpecExpand == InitExpand /\ [][NextExpand]_vars

\* The two modes on one request: GET /scan/stream is run to its end, then the
\* same target and batchSize are sent to POST /scan.  The stream of the first
\* run and the log of what its probes met are kept for comparison.
InitPair ==
    /\ req \in { [mode |-> "stream", target |-> t, batchSize |-> b, client |-> "other"] :
                  t \in ScanTargets, b \in BatchSizes \ {NaN} }
    /\ conn = "open"
    /\ InitSession

Resubmit ==
    /\ req.mode = "stream"
    /\ pc = "done"
    /\ req' = [req EXCEPT !.mode = "json"]
    /\ pc' = "start"
    /\ ips' = << >>
    /\ i' = 0
    /\ batch' = << >>
    /\ j' = 0
    /\ results' = << >>
    /\ response' = NoResponse
    /\ UNCHANGED <<outstanding, probeStatus, events, streamState, probeLog>>
    /\ UNCHANGED clientVars
    /\ UNCHANGED storeVars
    /\ UNCHANGED viewVars
    /\ UNCHANGED hostVars

NextPair ==
    \/ HandleStreamingScan
    \/ StreamLoopHead
    \/ StreamProgress
    \/ StreamBatchEnd
    \/ StreamProbeDone
    \/ StreamFinish
    \/ Resubmit
    \/ HandleJsonScan
    \/ JsonLoopHead
    \/ JsonProbeDone
    \/ JsonBatchDone
    \/ JsonFinish

SpecPair == InitPair /\ [][NextPair]_vars

\* The Scanner page scanning its target again and again: startScan is run anew
\* once the scan before it has ended or was stopped.
InitRescan ==
    /\ req \in { r \in Requests :
                  r.client = "scanner" /\ Len(parseIPRange(r.target)) <= MaxRescanIps }
    /\ conn = "none"
    /\ InitSession

\* startScan after an earlier scan: a new event source, hence a new run of
\* handleStreamingScan; the upserts sent so far stay on their way
StartNextScan ==
    /\ req.client = "scanner"
    /\ mount = "owner"
    /\ conn = "closed"
    /\ ~isScanning
    /\ scanNo < MaxScans
    /\ isScanning' = TRUE
    /\ abortRef' = FALSE
    /\ globalScanAbortRef' = FALSE
    /\ scanProgress' = StartedProgress
    /\ collectedResults' = << >>
    /\ conn' = "open"
    /\ promise' = "pending"
    /\ scanNo' = scanNo + 1
    /\ delivered' = 0
    /\ pc' = "start"
    /\ ips' = << >>
    /\ i' = 0
    /\ batch' = << >>
    /\ j' = 0
    /\ outstanding' = {}
    /\ probeStatus' = << >>
    /\ results' = << >>
    /\ events' = << >>
    /\ streamState' = "none"
    /\ response' = NoResponse
    /\ probeLog' = << >>
    /\ UNCHANGED <<req, toast, saves, savesDone, inventory>>
    /\ UNCHANGED viewVars
    /\ UNCHANGED hostVars

NextRescan ==
    \/ HandleStreamingScan
    \/ StreamLoopHead
    \/ StreamProgress
    \/ StreamBatchEnd
    \/ StreamProbeDone
    \/ StreamFinish
    \/ ServerDetectDisconnect
    \/ StartScan
    \/ ScannerOnMessage
    \/ ScannerOnError
    \/ StopScan
    \/ InventoryUpsert
    \/ StartNextScan

SpecRescan == InitRescan /\ [][NextRescan]_vars

\* Navigation: the Scanner view is unmounted when the user opens another page
\* and a new one is mounted when the user comes back.  The event source and
\* the handlers of the view that started the scan live on (nothing is closed
\* on unmount); the new view has state of its own.
NavigateAway ==
    /\ req.client = "scanner"
    /\ mount \in {"owner", "other"}
    /\ mount' = "none"
    /\ viewScanning' = FALSE
    /\ viewAbortRef' = FALSE
    /\ UNCHANGED <<req, ips>>
    /\ UNCHANGED serverVars
    /\ UNCHANGED clientVars
    /\ UNCHANGED storeVars
    /\ UNCHANGED hostVars

\* mount: isScanning is taken from the shared scan state, once
NavigateBack ==
    /\ req.client = "scanner"
    /\ mount = "none"
    /\ mount' = "other"
    /\ viewScanning' = (~scanProgress.null /\ scanProgress.isScanning)
    /\ viewAbortRef' = FALSE
    /\ UNCHANGED <<req, ips>>
    /\ UNCHANGED serverVars
    /\ UNCHANGED clientVars
    /\ UNCHANGED storeVars
    /\ UNCHANGED hostVars

\* a stopScan that leaves the event source of the earlier view alone
StopScanRemountedOwnSourceOnly ==
    /\ req.client = "scanner"
    /\ mount = "other"
    /\ viewScanning
    /\ viewAbortRef' = TRUE
    /\ globalScanAbortRef' = TRUE
    /\ viewScanning' = FALSE
    /\ scanProgress' = NoProgress
    /\ toast' = Append(toast, "Scan Stopped")
    /\ UNCHANGED <<req, ips, mount, delivered, conn, abortRef, isScanning, collectedResults,
                   promise>>
    /\ UNCHANGED serverVars
    /\ UNCHANGED storeVars
    /\ UNCHANGED hostVars

\* stopScan in the view mounted later: its own refs, the global flag, the
\* global event source
StopScanRemounted ==
    /\ req.client = "scanner"
    /\ mount = "other"
    /\ viewScanning
    /\ viewAbortRef' = TRUE
    /\ globalScanAbortRef' = TRUE
    /\ conn' = IF conn = "open" THEN "closed" ELSE conn
    /\ viewScanning' = FALSE
    /\ scanProgress' = NoProgress
    /\ toast' = Append(toast, "Scan Stopped")
    /\ UNCHANGED <<req, ips, mount, delivered, abortRef, isScanning, collectedResults, promise>>
    /\ UNCHANGED serverVars
    /\ UNCHANGED storeVars
    /\ UNCHANGED hostVars

InitNav ==
    /\ req \in { r \in Requests : r.client = "scanner" }
    /\ conn = "none"
    /\ InitSession

NextNav ==
    \/ HandleStreamingScan
    \/ StreamLoopHead
    \/ StreamProgress
    \/ StreamBatchEnd
    \/ StreamProbeDone
    \/ StreamFinish
    \/ ServerDetectDisconnect
    \/ StartScan
    \/ ScannerOnMessage
    \/ ScannerOnError
    \/ StopScan
    \/ InventoryUpsert
    \/ NavigateAway
    \/ NavigateBack
    \/ StopScanRemounted

SpecNav == InitNav /\ [][NextNav]_vars

\* the same with the handlers and the event source kept running; the user is
\* free to do nothing
SpecNavLive ==
    InitNav /\ [][NextNav]_vars /\ WF_vars(ServerStep) /\ WF_vars(ScannerOnMessage)

\* updateProgress alone: a state of the store and an update, and the call
ProgressStates ==
    { NoProgress } \cup
    [isScanning : BOOLEAN, progress : {0, 50}, currentIp : {<< >>, <<10, 1, 10, 1>>},
     activeCount : 0..1, inactiveCount : 0..1, null : {FALSE}]

\* the updates onmessage makes (Progress event, Result event), and others a
\* Partial<ScanProgress> admits
ProgressUpdates ==
    { [progress |-> 33, currentIp |-> <<10, 1, 10, 3>>, activeCount |-> 1, inactiveCount |-> 0],
      [progress |-> 100, currentIp |-> <<10, 1, 10, 3>>, activeCount |-> 2, inactiveCount |-> 1],
      [activeCount |-> 2, inactiveCount |-> 0],
      [activeCount |-> 1, inactiveCount |-> 2],
      [isScanning |-> TRUE],
      [isScanning |-> TRUE, progress |-> 100] }

InitStore ==
    /\ req \in { [mode |-> "store", state |-> st, updates |-> u, client |-> "other",
                   batchSize |-> DefaultBatchSize, target |-> MissingT] :
                   st \in ProgressStates, u \in ProgressUpdates }
    /\ conn = "none"
    /\ pc = "start"
    /\ ips = << >>
    /\ i = 0
    /\ batch = << >>
    /\ j = 0
    /\ outstanding = {}
    /\ probeStatus = << >>
    /\ results = << >>
    /\ events = << >>
    /\ streamState = "none"
    /\ response = NoResponse
    /\ delivered = 0
    /\ abortRef = FALSE
    /\ globalScanAbortRef = FALSE
    /\ isScanning = FALSE
    /\ scanProgress = req.state
    /\ collectedResults = << >>
    /\ promise = "none"
    /\ toast = << >>
    /\ probeLog = << >>
    /\ scanNo = 0
    /\ saves = << >>
    /\ savesDone = {}
    /\ inventory = {}
    /\ mount = "owner"
    /\ viewScanning = FALSE
    /\ viewAbortRef = FALSE
    /\ hostnames = << >>
    /\ dateNow = 0
    /\ hostArg = << >>

UpdateProgressCall ==
    /\ req.mode = "store"
    /\ pc = "start"
    /\ scanProgress' = updateProgress(scanProgress, req.updates)
    /\ pc' = "updated"
    /\ UNCHANGED <<req, ips, i, batch, j, outstanding, probeStatus, results, events, streamState,
                   response, probeLog>>
    /\ UNCHANGED <<delivered, conn, abortRef, globalScanAbortRef, isScanning, collectedResults,
                   promise, toast>>
    /\ UNCHANGED storeVars
    /\ UNCHANGED viewVars
    /\ UNCHANGED hostVars

NextStore == UpdateProgressCall

SpecStore == InitStore /\ [][NextStore]_vars

---------------------------------------------------------------------------
(* Hostname suggestions: saveHostname on the stored list *)

\* a string is the sequence of its characters
Blank == " "
Lower(c) == CASE c = "A" -> "a" [] c = "B" -> "b" [] OTHER -> c
toLowerCase(str) == [k \in 1..Len(str) |-> Lower(str[k])]

RECURSIVE trimStart(_)
trimStart(str) ==
    IF str # << >> /\ Head(str) = Blank THEN trimStart(Tail(str)) ELSE str

RECURSIVE trimEnd(_)
trimEnd(str) ==
    IF str # << >> /\ str[Len(str)] = Blank THEN trimEnd(SubSeq(str, 1, Len(str) - 1)) ELSE str

trim(str) == trimEnd(trimStart(str))

\* ip?: string, left out
NoIp == << >>

\* hostnames.findIndex(h => h.hostname.toLowerCase() === hostname.toLowerCase()),
\* 0 when there is none
FindIndex(list, hostname) ==
    LET hits == { k \in 1..Len(list) : toLowerCase(list[k].hostname) = toLowerCase(hostname) }
    IN  IF hits = {} THEN 0 ELSE CHOOSE k \in hits : \A m \in hits : k <= m

\* sort((a, b) => b.lastUsed - a.lastUsed): stable, latest first
InsertByLastUsed(sorted, e) ==
    LET before == { k \in 1..Len(sorted) : sorted[k].lastUsed >= e.lastUsed }
        n == Cardinality(before)
    IN  SubSeq(sorted, 1, n) \o <<e>> \o SubSeq(sorted, n + 1, Len(sorted))

RECURSIVE SortByLastUsed(_)
SortByLastUsed(list) ==
    IF list = << >> THEN << >>
    ELSE InsertByLastUsed(SortByLastUsed(SubSeq(list, 1, Len(list) - 1)), list[Len(list)])

\* the list saveHostname writes back
saveHostname(list, hostname, ip, t) ==
    IF trim(hostname) = << >> THEN list
    ELSE LET existing == FindIndex(list, hostname)
             touched ==
                 IF existing >= 1
                 THEN [list EXCEPT ![existing] =
                          [@ EXCEPT !.lastUsed = t, !.ip = IF ip # NoIp THEN ip ELSE @]]
                 ELSE Append(list, [hostname |-> trim(hostname), ip |-> ip, lastUsed |-> t])
             sorted == SortByLastUsed(touched)
         IN  SubSeq(sorted, 1, IF Len(sorted) < HostnameCap THEN Len(sorted) ELSE HostnameCap)

HostnameInputs ==
    { <<"a">>, <<"A">>, <<Blank, "a">>, <<"b", Blank>>, <<Blank>>, << >> }

HostIps == { NoIp, <<10, 1, 10, 1>> }

InitHost ==
    /\ req \in { [mode |-> "hostnames", target |-> MissingT, batchSize |-> DefaultBatchSize,
                  client |-> "scanner"] }
    /\ conn = "none"
    /\ InitSession

\* one call of saveHostname; the clock has moved on by 0 or 1 since the last
SaveHostname ==
    /\ req.mode = "hostnames"
    /\ Len(hostnames) < MaxStored
    /\ \E hostname \in HostnameInputs, ip \in HostIps, t \in {dateNow, dateNow + 1} :
         /\ t <= MaxClock
         /\ dateNow' = t
         /\ hostArg' = hostname
         /\ hostnames' = saveHostname(hostnames, hostname, ip, t)
    /\ UNCHANGED <<req, ips>>
    /\ UNCHANGED serverVars
    /\ UNCHANGED clientVars
    /\ UNCHANGED storeVars
    /\ UNCHANGED viewVars

NextHost == SaveHostname

SpecHost == InitHost /\ [][NextHost]_vars

---------------------------------------------------------------------------
(* Properties *)

IsResult(e) == e.type = "result"
IsProgress(e) == e.type = "progress"
IsComplete(e) == e.type = "complete"

ResultEvents == SelectSeq(events, IsResult)
CompleteEvents == SelectSeq(events, IsComplete)
ProgressEvents == SelectSeq(events, IsProgress)

\* the scan ran to completion: the summary is on the stream, or is the response
StreamCompleted == Len(CompleteEvents) > 0
JsonCompleted == response.kind = "json"

\* every address of ips is the address of exactly one of the outcomes
OneOutcomeEach(ipOf, n) ==
    /\ n = Len(ips)
    /\ \A k \in 1..Len(ips) : Cardinality({ m \in 1..n : ipOf[m] = ips[k] }) = 1

\* C1: a scan that runs to completion has produced exactly one Result (one
\* outcome) for each address of parseIPRange(target), and no other.
C1_OneResultPerAddress ==
    /\ StreamCompleted =>
         OneOutcomeEach([m \in 1..Len(ResultEvents) |-> ResultEvents[m].ip], Len(ResultEvents))
    /\ JsonCompleted =>
         OneOutcomeEach([m \in 1..Len(response.results) |-> response.results[m].ip],
                        Len(response.results))

\* C2: in every state of a scan, streaming or synchronous, the number of
\* probes launched and not yet resulted is at most the batchSize of the
\* request (a batchSize that is no number, or below 0, admits no probe).
C2_OutstandingWithinLimit ==
    Cardinality(outstanding) <=
        (IF req.batchSize = NaN \/ req.batchSize < 0 THEN 0 ELSE req.batchSize)

InSeq(x, s) == \E k \in 1..Len(s) : s[k] = x

\* C3: a stream holds at most one Complete event and nothing behind it; a
\* stream the handler finished ends with it; the stream of a cancelled or
\* failed session holds none, and the Scanner page, once stopped or failed,
\* has handled none.  Three addresses with batchSize 2 give 3 Progress and
\* 3 Result events before the Complete event.
C3_CompleteTerminatesStream ==
    /\ Len(CompleteEvents) <= 1
    /\ \A k \in 1..Len(events) : IsComplete(events[k]) => k = Len(events)
    /\ (req.mode = "stream" /\ pc = "done" /\ response.kind = "stream") =>
         /\ streamState = "closed"
         /\ Len(events) >= 1
         /\ IsComplete(events[Len(events)])
    /\ (streamState = "cancelled" \/ pc = "errored") => Len(CompleteEvents) = 0
    /\ (req.client = "scanner" /\ (abortRef \/ promise \in {"failed", "cancelled"})) =>
         \A k \in 1..delivered : ~IsComplete(events[k])
    /\ promise = "resolved" => (delivered = Len(events) /\ IsComplete(events[delivered]))
    /\ (streamState = "closed" /\ Len(ips) = 3 /\ req.batchSize = 2) =>
         (Len(ProgressEvents) = 3 /\ Len(ResultEvents) = 3 /\ Len(events) = 7)

\* the three-address scan with batchSize 2 has ended and was read to its end
C3_Witness ==
    /\ streamState = "closed"
    /\ Len(ips) = 3
    /\ req.batchSize = 2
    /\ delivered = Len(events)

\* the scan was cancelled: stopScan ran, or another consumer disconnected
Cancelled ==
    \/ req.client = "scanner" /\ abortRef
    \/ req.client = "other" /\ req.mode = "stream" /\ conn = "closed"

C5_SummaryCounts ==
    /\ \A k \in 1..Len(events) :
         IsComplete(events[k]) =>
           /\ events[k].activeHosts =
                Cardinality({ m \in 1..Len(events) :
                                IsResult(events[m]) /\ events[m].result.status = "active" })
           /\ events[k].totalHosts = Len(events[k].results)
           /\ events[k].totalHosts = Len(ResultEvents)
    /\ JsonCompleted =>
         /\ response.activeHosts =
              Cardinality({ m \in 1..Len(response.results) :
                              response.results[m].status = "active" })
         /\ response.activeHosts =
              Cardinality({ m \in 1..Len(results) : results[m].status = "active" })
         /\ response.totalHosts = Len(response.results)
         /\ response.totalHosts = Len(results)

\* a completed run with an active and an inactive host, in each mode
C5_Witness ==
    \/ /\ StreamCompleted
       /\ \E m, n \in 1..Len(ResultEvents) :
            ResultEvents[m].result.status = "active" /\ ResultEvents[n].result.status = "inactive"
    \/ /\ JsonCompleted
       /\ \E m, n \in 1..Len(response.results) :
            response.results[m].status = "active" /\ response.results[n].status = "inactive"

\* a well-formed address: four numbers in 0..255
WellFormed(a) == \A k \in 1..4 : a[k] \in 0..255

\* strictly ascending by numeric (unsigned) value
StrictlyAscending(s) == \A k \in 1..(Len(s) - 1) : ULess(s[k], s[k + 1])

Expanded == pc = "expanded"

\* C6: a valid range (well-formed ends, start <= end by numeric value) expands
\* to end - start + 1 addresses, strictly ascending, from start to end.
C6_RangeExpansion ==
    (Expanded /\ req.target.kind = "range" /\ WellFormed(req.target.a)
        /\ WellFormed(req.target.b) /\ ULeq(req.target.a, req.target.b)) =>
      /\ Len(ips) = UDiff(req.target.a, req.target.b) + 1
      /\ StrictlyAscending(ips)
      /\ ips[1] = req.target.a
      /\ ips[Len(ips)] = req.target.b

\* network and broadcast address of a prefix of length 24..32
HostSpan(bits) == 2 ^ (32 - bits)
NetworkOf(a, bits) == <<a[1], a[2], a[3], a[4] - (a[4] % HostSpan(bits))>>
BroadcastOf(a, bits) == <<a[1], a[2], a[3], NetworkOf(a, bits)[4] + HostSpan(bits) - 1>>

\* C7: for a prefix of length 24..31 the expansion holds neither the network
\* nor the broadcast address; for length 32 it is the one address itself.
C7_PrefixExpansion ==
    (Expanded /\ req.target.kind = "cidr" /\ WellFormed(req.target.a)) =>
      /\ req.target.bits \in 24..31 =>
           /\ ~InSeq(NetworkOf(req.target.a, req.target.bits), ips)
           /\ ~InSeq(BroadcastOf(req.target.a, req.target.bits), ips)
      /\ req.target.bits = 32 => ips = << req.target.a >>

\* a target that passes validation
ValidTarget(t) ==
    CASE t.kind = "single" -> WellFormed(t.a)
      [] t.kind = "range" -> WellFormed(t.a) /\ WellFormed(t.b) /\ ULeq(t.a, t.b)
      [] t.kind = "cidr" -> WellFormed(t.a) /\ t.bits \in 24..32
      [] OTHER -> FALSE

\* C8: every target that passes validation resolves to a non-empty, strictly
\* ascending (hence duplicate-free) sequence of addresses.
C8_ValidTargetNonEmptyAscending ==
    (Expanded /\ ValidTarget(req.target)) => (Len(ips) >= 1 /\ StrictlyAscending(ips))

\* a target expand is to refuse: start > end, a prefix length outside 24..32,
\* a malformed address
InvalidTarget(t) ==
    CASE t.kind = "single" -> ~WellFormed(t.a)
      [] t.kind = "range" -> ~(WellFormed(t.a) /\ WellFormed(t.b) /\ ULeq(t.a, t.b))
      [] t.kind = "cidr" -> ~(WellFormed(t.a) /\ t.bits \in 24..32)
      [] OTHER -> FALSE

\* C9: a request with such a target fails before any probing: no probe is
\* launched, no Progress, Result or Complete event is emitted, and the
\* handler ends with an error response.
C9_InvalidTargetFailsFast ==
    InvalidTarget(req.target) =>
      /\ events = << >>
      /\ outstanding = {}
      /\ results = << >>
      /\ pc = "done" => response.kind = "error"

\* C10: the outcomes of a synchronous response are in ascending numeric
\* address order.
C10_JsonResultsAscending ==
    JsonCompleted =>
      StrictlyAscending([m \in 1..Len(response.results) |-> response.results[m].ip])

\* C11: a request without a target, streaming or synchronous, is answered with
\* status 400 before anything else: no address is expanded, no stream is
\* opened, no probe is launched and no event is emitted, in any state.
C11_MissingTargetRejected ==
    req.target.kind = "missing" =>
      /\ ips = << >>
      /\ streamState = "none"
      /\ outstanding = {}
      /\ results = << >>
      /\ events = << >>
      /\ pc \in {"start", "done"}
      /\ pc = "done" => response = TargetRequired

\* the synchronous handler has answered a request without a target
C11_Witness ==
    /\ req.target.kind = "missing"
    /\ req.mode = "json"
    /\ pc = "done"
    /\ response.status = 400

\* C12: a request whose batchSize (concurrency limit) is a number not above 0
\* is rejected before any probe: no probe is launched, no outcome exists, and
\* the handler ends with an error response.
C12_NonPositiveOptionRejected ==
    (req.batchSize # NaN /\ req.batchSize <= 0 /\ req.target.kind # "missing") =>
      /\ outstanding = {}
      /\ results = << >>
      /\ pc = "done" => response.kind = "error"

\* C13: a probe never raises and a failed probe never aborts the scan.  Every
\* outcome is active or inactive; a probe that met a failure (ping exited
\* unsuccessfully, or the spawn threw) has the outcome inactive for its
\* address; a handler is aborted by nothing but the cancellation of its
\* stream; and a scan with a positive batchSize that has completed carries an
\* outcome for every address, failed probes included.
C13_ProbeNeverRaises ==
    /\ \A k \in 1..Len(results) : results[k].status \in {"active", "inactive"}
    /\ \A k \in 1..Len(probeStatus) :
         probeStatus[k].status \in {"active", "inactive", "pending"}
    /\ req.mode = "stream" =>
         /\ Len(results) = Len(probeLog)
         /\ \A k \in 1..Len(probeLog) :
              /\ results[k].ip = probeLog[k].ip
              /\ probeLog[k].outcome # "success" => results[k].status = "inactive"
    /\ JsonCompleted =>
         \A k \in 1..Len(probeLog) :
           \E m \in 1..Len(response.results) :
             /\ response.results[m].ip = probeLog[k].ip
             /\ probeLog[k].outcome # "success" => response.results[m].status = "inactive"
    /\ pc = "errored" => streamState = "cancelled"
    /\ (StreamCompleted /\ req.batchSize # NaN /\ req.batchSize >= 1) =>
         Len(ResultEvents) = Len(ips)
    /\ (JsonCompleted /\ req.batchSize >= 1) => Len(response.results) = Len(ips)

\* a scan of three addresses whose first probe threw and whose second failed
\* has gone on to the third and completed
C13_Witness ==
    /\ StreamCompleted
    /\ Len(probeLog) = 3
    /\ probeLog[1].outcome = "throw"
    /\ probeLog[2].outcome = "failure"
    /\ probeLog[3].outcome = "success"
    /\ Len(ResultEvents) = 3

\* a result carries a responseTime exactly when its status is active
TimedIffActive(r) == r.rt <=> (r.status = "active")

\* C14: every outcome, wherever it is held (the results of the handler, the
\* probes finished in the batch, Result and Complete events, the synchronous
\* response, the results the page collected), carries a responseTime if and
\* only if its status is active.
C14_LatencyIffActive ==
    /\ \A k \in 1..Len(results) : TimedIffActive(results[k])
    /\ \A k \in 1..Len(probeStatus) : TimedIffActive(probeStatus[k])
    /\ \A k \in 1..Len(events) :
         /\ IsResult(events[k]) => TimedIffActive(events[k].result)
         /\ \A m \in 1..Len(events[k].results) : TimedIffActive(events[k].results[m])
    /\ \A k \in 1..Len(response.results) : TimedIffActive(response.results[k])
    /\ \A k \in 1..Len(collectedResults) : TimedIffActive(collectedResults[k])

\* the page has collected an active and an inactive result
C14_Witness ==
    \E m, n \in 1..Len(collectedResults) :
      /\ collectedResults[m].status = "active" /\ collectedResults[m].rt
      /\ collectedResults[n].status = "inactive" /\ ~collectedResults[n].rt

\* the events handed to the consumer so far, as the server emitted them
DeliveredEvents == SubSeq(events, 1, delivered)

\* the last Progress event among them, if any
LastProgress(s) ==
    LET at == { k \in 1..Len(s) : IsProgress(s[k]) }
    IN  IF at = {} THEN 0 ELSE CHOOSE k \in at : \A m \in at : m <= k

\* C15: what the consumer has handled is a prefix of what the server emitted,
\* in the same order and without gaps.  On the Scanner page that is: the
\* results it collected are the results of the Result events among the first
\* `delivered` events, in order; the address it shows is that of the last
\* Progress event among them; one upsert was sent per Result event among
\* them, in order; and the scan resolved only on the Complete event, which is
\* the last event emitted.
C15_ConsumerSeesPrefix ==
    /\ delivered <= Len(events)
    /\ req.client = "scanner" =>
         LET seen == SelectSeq(DeliveredEvents, IsResult)
             p == LastProgress(DeliveredEvents)
         IN  /\ Len(collectedResults) = Len(seen)
             /\ \A k \in 1..Len(seen) :
                  /\ collectedResults[k] = seen[k].result
                  /\ saves[k].ip_address = seen[k].result.ip
                  /\ saves[k].status = seen[k].result.status
             /\ Len(saves) = Len(seen)
             /\ (~scanProgress.null /\ p > 0) =>
                  scanProgress.currentIp = DeliveredEvents[p].ip
             /\ promise = "resolved" =>
                  (delivered = Len(events) /\ IsComplete(events[delivered]))

\* the page has handled two Result events while the server is further ahead
C15_Witness ==
    /\ req.client = "scanner"
    /\ Len(collectedResults) = 2
    /\ delivered < Len(events)
    /\ collectedResults[1].ip # collectedResults[2].ip

\* C16: once the consumer's disconnect has reached the handler's stream (the
\* stream is cancelled), no new probe is launched and nothing more is
\* emitted: the probe in flight at that moment is the last, and the stream
\* stays cancelled and never receives a Complete event; the handler is at
\* that await or has ended in the error of its enqueue.
C16_NoProbeAfterDisconnect ==
    [][ /\ streamState = "cancelled" =>
             /\ outstanding' \subseteq outstanding
             /\ events' = events
             /\ Len(results') <= Len(results) + Cardinality(outstanding)
             /\ streamState' = "cancelled"
        /\ streamState' = "cancelled" =>
             /\ Len(CompleteEvents') = 0
             /\ pc' \in {"await", "errored"}
             /\ conn' = "closed" ]_vars

\* a consumer left after the first of three addresses; the handler has ended
\* on the cancelled stream with an address never probed
C16_Witness ==
    /\ req.client = "other"
    /\ conn = "closed"
    /\ streamState = "cancelled"
    /\ pc = "errored"
    /\ Len(ips) = 3
    /\ Len(probeLog) = 2
    /\ Len(ResultEvents) = 1

\* every address met the same outcome each time it was probed
SameOutcomes ==
    \A k, m \in 1..Len(probeLog) :
      probeLog[k].ip = probeLog[m].ip => probeLog[k].outcome = probeLog[m].outcome

\* the outcomes a summary carries, as a set
OutcomeSet(rs) == { rs[k] : k \in 1..Len(rs) }

\* C17: when one target and batchSize have been scanned in both modes and
\* every address met the same outcome in both, the synchronous response has
\* the totalHosts, the activeHosts and the set of outcomes of the Complete
\* event of the stream (the order of the outcomes may differ).
C17_SyncEqualsComplete ==
    (StreamCompleted /\ JsonCompleted /\ SameOutcomes) =>
      LET complete == CompleteEvents[1]
      IN  /\ response.totalHosts = complete.totalHosts
          /\ response.activeHosts = complete.activeHosts
          /\ Len(response.results) = Len(complete.results)
          /\ OutcomeSet(response.results) = OutcomeSet(complete.results)

\* both modes have scanned the three addresses of one target, with an active
\* and an inactive host among them, and list them in different orders
C17_Witness ==
    /\ StreamCompleted
    /\ JsonCompleted
    /\ SameOutcomes
    /\ Len(response.results) = 3
    /\ response.activeHosts \in 1..2
    /\ response.results # CompleteEvents[1].results

\* the upsert sent for the latest Result the page observed for an address
LatestSave(ip) ==
    CHOOSE k \in 1..Len(saves) :
      /\ saves[k].ip_address = ip
      /\ \A m \in 1..Len(saves) : saves[m].ip_address = ip => m <= k

\* C18: after any sequence of scans the inventory holds at most one row per
\* address, and, once every upsert sent has been applied, the status of each
\* row is the status of the latest Result the page observed for its address.
C18_InventoryLatestStatus ==
    /\ \A r1, r2 \in inventory : r1.ip_address = r2.ip_address => r1 = r2
    /\ savesDone = 1..Len(saves) =>
         \A r \in inventory : r.status = saves[LatestSave(r.ip_address)].status

\* C19: a prefix of length 24..30 over a well-formed base, aligned or not,
\* expands to exactly the addresses network + 1 .. network + hostCount - 2 in
\* ascending order, hostCount = 2^(32 - len); 10.1.10.0/30 gives 10.1.10.1
\* and 10.1.10.2.
C19_PrefixHosts ==
    /\ (Expanded /\ req.target.kind = "cidr" /\ WellFormed(req.target.a)
          /\ req.target.bits \in 24..30) =>
         LET net == NetworkOf(req.target.a, req.target.bits)
             hostCount == HostSpan(req.target.bits)
         IN  /\ Len(ips) = hostCount - 2
             /\ \A k \in 1..(hostCount - 2) :
                  ips[k] = <<net[1], net[2], net[3], net[4] + k>>
    /\ (Expanded /\ req.target = CidrT(<<10, 1, 10, 0>>, 30)) =>
         ips = << <<10, 1, 10, 1>>, <<10, 1, 10, 2>> >>

\* a /30 whose base is not the network address has been expanded
C19_Witness ==
    /\ Expanded
    /\ req.target = CidrT(<<10, 1, 10, 5>>, 30)
    /\ ips = << <<10, 1, 10, 5>>, <<10, 1, 10, 6>> >>

\* C20: the scheduler is window-synchronous.  While a probe is outstanding,
\* the window it belongs to starts at i, and every address before i (every
\* probe of the windows before) has its outcome in results, in order, and in
\* streaming mode its Result event on the stream; and the scheduler moves to
\* the next window (i changes) only when no probe is outstanding.
C20_WindowSynchronous ==
    /\ [](outstanding # {} =>
            /\ i # NaN
            /\ i >= 0
            /\ Len(results) >= i
            /\ \A m \in 1..i :
                 /\ results[m].ip = ips[m]
                 /\ results[m].status \in {"active", "inactive"}
            /\ req.mode = "stream" => Len(ResultEvents) >= i)
    /\ [][i' # i => (outstanding = {} /\ outstanding' = {})]_vars

\* the second window of a scan of three addresses with batchSize 2 is under
\* way: its probe is outstanding and the two outcomes of the first window are in
C20_Witness ==
    /\ req.batchSize = 2
    /\ Len(ips) = 3
    /\ i = 2
    /\ outstanding = {1}
    /\ Len(results) = 2

\* position of an address in the expanded list (0 if it is not in it)
IndexOf(ip) ==
    IF \E n \in 1..Len(ips) : ips[n] = ip
    THEN CHOOSE n \in 1..Len(ips) : ips[n] = ip
    ELSE 0

\* the window of an address: windows of batchSize addresses, counted from 0;
\* a batchSize that is no positive number makes no second window
WindowOf(ip) ==
    IF req.batchSize # NaN /\ req.batchSize >= 1
    THEN (IndexOf(ip) - 1) \div req.batchSize
    ELSE 0

\* C21: on every stream, each Progress event for an address of window k comes
\* before each Result event for an address of window k + 1.
C21_ProgressBeforeNextWindow ==
    \A p, q \in 1..Len(events) :
      (IsProgress(events[p]) /\ IsResult(events[q])
         /\ WindowOf(events[q].ip) = WindowOf(events[p].ip) + 1) => p < q

\* a stream of three addresses in windows of one has ended: three windows
C21_Witness ==
    /\ req.mode = "stream"
    /\ req.batchSize = 1
    /\ streamState = "closed"
    /\ Len(ProgressEvents) = 3
    /\ WindowOf(ResultEvents[3].ip) = 2

\* positions of the Progress events naming the address of the event at q that
\* come before it
ProgressBefore(q) ==
    { p \in 1..(q - 1) : IsProgress(events[p]) /\ events[p].ip = events[q].ip }

\* number of Result events among the first n events
ResultsUpTo(n) == Cardinality({ m \in 1..n : IsResult(events[m]) })

\* C22 as stated: every Result event is preceded by exactly one Progress event
\* naming its address; in every Progress event total is the number of
\* expanded addresses and current (completedCount) is the number of Result
\* events emitted before it.
C22_AsStated ==
    \A q \in 1..Len(events) :
      /\ IsResult(events[q]) => Cardinality(ProgressBefore(q)) = 1
      /\ IsProgress(events[q]) =>
           /\ events[q].total = Len(ips)
           /\ events[q].current = ResultsUpTo(q - 1)

\* C22, amended: as above, but current is the position of the address being
\* probed among the probes of the scan, counted from 1: the number of Result
\* events emitted before the Progress event, plus one.
C22_ProgressOrdinal ==
    \A q \in 1..Len(events) :
      /\ IsResult(events[q]) => Cardinality(ProgressBefore(q)) = 1
      /\ IsProgress(events[q]) =>
           /\ events[q].total = Len(ips)
           /\ events[q].current = ResultsUpTo(q - 1) + 1

\* the Progress event of the third of three addresses is on the stream, behind
\* two Result events, and says 3 of 3
C22_Witness ==
    /\ Len(ips) = 3
    /\ Len(events) >= 5
    /\ IsProgress(events[5])
    /\ events[5].current = 3
    /\ events[5].total = 3
    /\ ResultsUpTo(4) = 2

\* position of an address inside its window, counted from 1
PlaceInWindow(ip) ==
    IF req.batchSize # NaN /\ req.batchSize >= 1
    THEN ((IndexOf(ip) - 1) % req.batchSize) + 1
    ELSE IndexOf(ip)

\* C23: the probes of a window of a streaming scan are launched concurrently.
\* With a batchSize of 2 or more, when the Progress event of a later address of a window has just been
\* emitted and its probe launched, the probes launched before it in that
\* window are still outstanding (two probes or more are outstanding) and the
\* Result event of none of them is on the stream yet.
C23_WindowLaunchedConcurrently ==
    (req.mode = "stream" /\ req.batchSize >= 2
       /\ Len(events) >= 1 /\ IsProgress(events[Len(events)])
       /\ PlaceInWindow(events[Len(events)].ip) >= 2) =>
      /\ Cardinality(outstanding) >= 2
      /\ \A q \in 1..Len(events) :
           IsResult(events[q]) => WindowOf(events[q].ip) # WindowOf(events[Len(events)].ip)

\* what the streaming handler does: never more than one probe outstanding
StreamingOneAtATime == req.mode = "stream" => Cardinality(outstanding) <= 1

\* the handler has expanded the target and the address list is empty
EmptyScan == req.target.kind # "missing" /\ pc # "start" /\ ips = << >>

\* C24: a streaming scan over an empty address list launches no probe and
\* emits no Progress or Result event; the handler goes from the loop test
\* straight to the summary, and its stream, once closed, holds exactly one
\* event: a Complete with totalHosts 0, activeHosts 0 and no outcomes.
C24_EmptyScan ==
    (req.mode = "stream" /\ EmptyScan) =>
      /\ outstanding = {}
      /\ probeLog = << >>
      /\ results = << >>
      /\ Len(ProgressEvents) = 0
      /\ Len(ResultEvents) = 0
      /\ pc \in {"loop", "finish", "done"}
      /\ pc = "done" =>
           /\ streamState = "closed"
           /\ Len(events) = 1
           /\ IsComplete(events[1])
           /\ events[1].totalHosts = 0
           /\ events[1].activeHosts = 0
           /\ events[1].results = << >>

\* the stream of a scan whose range runs backwards has been closed
C24_Witness ==
    /\ req.mode = "stream"
    /\ req.target = RangeT(<<10, 0, 0, 5>>, <<10, 0, 0, 1>>)
    /\ ips = << >>
    /\ pc = "done"
    /\ Len(CompleteEvents) = 1

\* the handler has taken the request; the handler has returned or was ended
\* by the cancellation of its stream
Accepted == pc # "start" /\ req.target.kind # "missing"
Ended == pc \in {"done", "errored"}

\* C25: every accepted scan request terminates, whatever its batchSize: the
\* streaming handler emits Complete and closes the stream (or is ended by the
\* consumer's leaving), the synchronous handler returns its response.
C25_Terminates == Accepted ~> Ended

\* the same for the requests whose batchSize is a positive number, or text
\* that parseInt reads as NaN
C25_TerminatesPositive ==
    (Accepted /\ (req.batchSize = NaN \/ req.batchSize >= 1)) ~> Ended

\* isScanning of the Scanner view on screen, if there is one
MountedScanning ==
    CASE mount = "owner" -> isScanning
      [] mount = "other" -> viewScanning
      [] OTHER -> FALSE

\* C26: once the Complete event of a scan has been handled, the Scanner view
\* that is mounted eventually shows "not scanning", also when it was mounted
\* while the scan was running.
C26_MountedViewStopsScanning ==
    (req.client = "scanner" /\ promise = "resolved") ~> ~MountedScanning

\* C27: stopScan in a view mounted after navigation cancels the scan the
\* earlier view started.  From the step of stopScan on, the event source is
\* closed and the shared scan state is null, and after it no event of the
\* stream is handled: nothing more is collected, saved or resolved.
C27_RemountedStopCancels ==
    [][ /\ globalScanAbortRef' =>
             /\ conn' = "closed"
             /\ scanProgress' = NoProgress
        /\ globalScanAbortRef =>
             /\ delivered' = delivered
             /\ collectedResults' = collectedResults
             /\ saves' = saves
             /\ promise' = promise ]_vars

\* the view mounted later has stopped a scan of three addresses after one
\* Result; events of the stream are left unhandled
C27_Witness ==
    /\ mount = "other"
    /\ viewAbortRef
    /\ ~abortRef
    /\ globalScanAbortRef
    /\ Len(ips) = 3
    /\ Len(collectedResults) = 1
    /\ delivered < Len(events)
    /\ promise = "pending"

\* C28: updateProgress never re-creates cleared scan state.  Called on null it
\* leaves null, whatever the update names (isScanning included); called on a
\* state it sets the fields the update names and leaves every other field as
\* it was.
C28_UpdateProgressFrame ==
    (req.mode = "store" /\ pc = "updated") =>
      /\ req.state.null => (scanProgress = NoProgress /\ ~scanProgress.isScanning)
      /\ ~req.state.null =>
           /\ ~scanProgress.null
           /\ \A f \in DOMAIN req.updates : scanProgress[f] = req.updates[f]
           /\ \A f \in (DOMAIN req.state) \ (DOMAIN req.updates) :
                scanProgress[f] = req.state[f]

\* updateProgress was called on the cleared state with an update that names
\* isScanning, and on a state with the update of a Result event
C28_Witness ==
    /\ req.mode = "store"
    /\ pc = "updated"
    /\ \/ req.state.null /\ req.updates = [isScanning |-> TRUE] /\ scanProgress.null
       \/ /\ ~req.state.null
          /\ req.updates = [activeCount |-> 2, inactiveCount |-> 0]
          /\ scanProgress.activeCount = 2
          /\ scanProgress.progress = 50

\* C29: range expansion follows the unsigned numeric order of addresses: an
\* address converted to its number and back is the same address, and a range
\* whose start is at most its end in unsigned order expands to end - start + 1
\* addresses, also when it runs from 127.255.255.255 into 128.0.0.0.
C29_UnsignedOrder ==
    (Expanded /\ req.target.kind = "range" /\ WellFormed(req.target.a)
        /\ WellFormed(req.target.b)) =>
      /\ NumToIp(IpToNum(req.target.a)) = req.target.a
      /\ NumToIp(IpToNum(req.target.b)) = req.target.b
      /\ ULeq(req.target.a, req.target.b) =>
           Len(ips) = UDiff(req.target.a, req.target.b) + 1

\* the part of C29 that holds: the conversion to a number and back
NumberRoundTrip ==
    (Expanded /\ WellFormed(req.target.a) /\ WellFormed(req.target.b)) =>
      /\ NumToIp(IpToNum(req.target.a)) = req.target.a
      /\ NumToIp(IpToNum(req.target.b)) = req.target.b

SortedByLastUsed ==
    \A k \in 1..(Len(hostnames) - 1) : hostnames[k].lastUsed >= hostnames[k + 1].lastUsed

NoTwoEqualIgnoringCase ==
    \A k, m \in 1..Len(hostnames) :
        toLowerCase(hostnames[k].hostname) = toLowerCase(hostnames[m].hostname) => k = m

\* C30: after any sequence of saveHostname calls the stored list has at most
\* 100 entries, is ordered by lastUsed descending and holds no two entries
\* whose hostnames are equal ignoring case, whether the saved hostname came
\* with surrounding whitespace or not; a call with a blank hostname leaves the
\* list as it was.
C30_HostnameStore ==
    /\ [](req.mode = "hostnames" =>
            /\ Len(hostnames) <= HostnameCap
            /\ SortedByLastUsed
            /\ NoTwoEqualIgnoringCase)
    /\ [][(req.mode = "hostnames" /\ trim(hostArg') = << >>) => hostnames' = hostnames]_vars

\* the parts of C30 that hold
HostnameStoreOrdered ==
    /\ [](req.mode = "hostnames" => (Len(hostnames) <= HostnameCap /\ SortedByLastUsed))
    /\ [][(req.mode = "hostnames" /\ trim(hostArg') = << >>) => hostnames' = hostnames]_vars

====
